---- MODULE Spec2Model ----
(***************************************************************************)
(* Model of datavzrd's portable renderer (src/src/render/portable.rs):     *)
(*   - TableRenderer::render_tables  (paging, output directory, plots)     *)
(*   - generate_numeric_plot         (20-bin histogram of a numeric column)*)
(*   - generate_nominal_plot         (frequency table of a nominal column) *)
(* A csv file is a sequence of data records (the header is not part of     *)
(* it); a record is a sequence of cells; a cell is a string.  A csv reader *)
(* is its cursor pos: the number of data records it has yielded so far.    *)
(* Reader::records() continues from the cursor, it never rewinds.          *)
(***************************************************************************)
EXTENDS Integers, Sequences, FiniteSets, TLC

VARIABLES
    file,          \* the csv file's data records
    pc,            \* position in the function being run
    pos,           \* cursor of the csv reader `reader`
    \* generate_numeric_plot
    min, max, step, bins, nan, result,
    passes,        \* history: per pass, the cursor it started at and the records it read
    binOf,         \* history: record ordinal -> bucket index the bucketing pass used
    \* generate_nominal_plot
    count_values,  \* the HashMap: key -> count
    seed,          \* the HashMap's RandomState
    nominal,       \* the returned Option<Vec<PlotRecord>>
    invocation,    \* 1 or 2: which call on the same file this is
    first,         \* the value the first call returned
    \* render_tables
    tables,        \* specs.tables: sequence of [name, page_size]
    t,             \* index of the table being rendered
    pages,         \* calls of render_page so far: [table, page, data]
    dirs,          \* directories that exist under the output path
    plots          \* plot artifacts written: [table, index, plot]

numVars == <<min, max, step, bins, nan, result, passes, binOf>>
nomVars == <<count_values, seed, nominal, invocation, first>>
renVars == <<tables, t, pages, dirs, plots>>
vars == <<file, pc, pos, numVars, nomVars, renVars>>

(***************************************************************************)
(* Program constants and bounds                                            *)
(***************************************************************************)
MAX_NOMINAL_BINS == 10
NUMERIC_BINS == 20

\* longest column given to generate_numeric_plot
MaxNumRows == 4
\* rows appended after the distinct-key prefix of a nominal column
MaxExtra == 2
\* distinct keys of the widest nominal column
NumKeys == 12
\* hash seeds a HashMap may draw
MaxSeed == 2
\* longest file given to render_tables
MaxRows == 3
\* largest page_size of a table
MaxPageSize == 2

SeqsUpTo(S, n) == UNION {[1..k -> S] : k \in 0..n}

Get(record, column_index) == record[column_index + 1]

(***************************************************************************)
(* f32.  A finite value is kept exactly, in units of 1/Scale; values of    *)
(* the cells are small integers, so every finite value the model computes  *)
(* is exact and f32 rounding is not modelled.                              *)
(***************************************************************************)
Scale == NUMERIC_BINS
Fin(n) == [k |-> "fin", n |-> n]
INFINITY == [k |-> "inf", n |-> 0]
NEG_INFINITY == [k |-> "neginf", n |-> 0]
NAN == [k |-> "nan", n |-> 0]

Sgn(a) == CASE a.k = "inf" -> 1
            [] a.k = "neginf" -> -1
            [] a.k = "fin" -> (IF a.n > 0 THEN 1 ELSE IF a.n < 0 THEN -1 ELSE 0)
            [] OTHER -> 0

Signed(s) == IF s > 0 THEN INFINITY ELSE IF s < 0 THEN NEG_INFINITY ELSE NAN

FNeg(a) == CASE a.k = "inf" -> NEG_INFINITY
             [] a.k = "neginf" -> INFINITY
             [] a.k = "fin" -> Fin(-a.n)
             [] OTHER -> NAN

FAdd(a, b) == CASE a.k = "nan" \/ b.k = "nan" -> NAN
                [] a.k = "fin" /\ b.k = "fin" -> Fin(a.n + b.n)
                [] a.k = "fin" -> b
                [] b.k = "fin" -> a
                [] a.k = b.k -> a
                [] OTHER -> NAN

FSub(a, b) == FAdd(a, FNeg(b))

\* quotient of integers rounded toward zero
QuotToZero(x, y) ==
    LET ax == IF x < 0 THEN -x ELSE x
        ay == IF y < 0 THEN -y ELSE y
        q == ax \div ay
    IN IF (x < 0) = (y < 0) THEN q ELSE -q

FMul(a, b) == CASE a.k = "nan" \/ b.k = "nan" -> NAN
                [] a.k = "fin" /\ b.k = "fin" -> Fin(QuotToZero(a.n * b.n, Scale))
                [] OTHER -> Signed(Sgn(a) * Sgn(b))

FDiv(a, b) == CASE a.k = "nan" \/ b.k = "nan" -> NAN
                [] a.k = "fin" /\ b.k = "fin" ->
                     IF b.n = 0 THEN Signed(Sgn(a))
                     ELSE Fin(QuotToZero(a.n * Scale, b.n))
                [] a.k = "fin" -> Fin(0)
                [] b.k = "fin" -> Signed(Sgn(a) * (IF b.n < 0 THEN -1 ELSE 1))
                [] OTHER -> NAN

Rank(a) == CASE a.k = "neginf" -> 0 [] a.k = "fin" -> 1 [] OTHER -> 2

FLess(a, b) == CASE a.k = "nan" \/ b.k = "nan" -> FALSE
                 [] a.k = "fin" /\ b.k = "fin" -> a.n < b.n
                 [] OTHER -> Rank(a) < Rank(b)

\* f32::min and f32::max: a NaN operand is ignored
F32Min(a, b) == IF a.k = "nan" THEN b ELSE IF b.k = "nan" THEN a
                ELSE IF FLess(b, a) THEN b ELSE a
F32Max(a, b) == IF a.k = "nan" THEN b ELSE IF b.k = "nan" THEN a
                ELSE IF FLess(a, b) THEN b ELSE a

FTrunc(a) == IF a.k = "fin" THEN Fin(QuotToZero(a.n, Scale) * Scale) ELSE a

UsizeAsF32(i) == Fin(i * Scale)

\* usize::MAX stands beyond every Vec length
UsizeSat == 2147483647

\* `x as usize`: saturating, NaN is 0
F32AsUsize(a) == CASE a.k = "inf" -> UsizeSat
                   [] a.k = "fin" /\ a.n > 0 -> a.n \div Scale
                   [] OTHER -> 0

\* the decimal literals the model's cells may hold
NumLiterals == <<"0", "1", "2", "3">>

\* f32::from_str: Ok(value) or Err
F32FromStr(s) ==
    IF \E i \in DOMAIN NumLiterals : NumLiterals[i] = s
    THEN [ok |-> TRUE,
          value |-> Fin(((CHOOSE i \in DOMAIN NumLiterals : NumLiterals[i] = s) - 1) * Scale)]
    ELSE [ok |-> FALSE, value |-> NAN]

(***************************************************************************)
(* generate_numeric_plot                                                   *)
(***************************************************************************)
Zeros == [i \in 0..(NUMERIC_BINS - 1) |-> 0]

\* reader.records().map(from_str(..).unwrap()).fold(INFINITY, min), from cursor p:
\* the first cell that does not parse panics, with the cursor past it
RECURSIVE MinReduce(_, _, _, _)
MinReduce(f, column_index, p, acc) ==
    IF p >= Len(f) THEN [panic |-> FALSE, value |-> acc, pos |-> p]
    ELSE LET b == F32FromStr(Get(f[p + 1], column_index))
         IN IF ~b.ok THEN [panic |-> TRUE, value |-> acc, pos |-> p + 1]
            ELSE MinReduce(f, column_index, p + 1, F32Min(acc, b.value))

\* the same with fold(NEG_INFINITY, max)
RECURSIVE MaxReduce(_, _, _, _)
MaxReduce(f, column_index, p, acc) ==
    IF p >= Len(f) THEN [panic |-> FALSE, value |-> acc, pos |-> p]
    ELSE LET b == F32FromStr(Get(f[p + 1], column_index))
         IN IF ~b.ok THEN [panic |-> TRUE, value |-> acc, pos |-> p + 1]
            ELSE MaxReduce(f, column_index, p + 1, F32Max(acc, b.value))

\* ((number - min) / step).trunc() as usize
BinIndex(number, mn, st) == F32AsUsize(FTrunc(FDiv(FSub(number, mn), st)))

\* the bucketing loop from cursor p; indexing bins out of range panics.
\* used: the bucket index taken for each record read (-1: counted in nan)
RECURSIVE BucketLoop(_, _, _, _, _, _, _, _)
BucketLoop(f, column_index, p, mn, st, bs, nn, used) ==
    IF p >= Len(f) THEN [panic |-> FALSE, bins |-> bs, nan |-> nn, pos |-> p, used |-> used]
    ELSE LET number == F32FromStr(Get(f[p + 1], column_index))
             i == BinIndex(number.value, mn, st)
         IN IF number.ok
            THEN IF i \in DOMAIN bs
                 THEN BucketLoop(f, column_index, p + 1, mn, st,
                                 [bs EXCEPT ![i] = @ + 1], nn, used @@ (p :> i))
                 ELSE [panic |-> TRUE, bins |-> bs, nan |-> nn, pos |-> p + 1,
                       used |-> used @@ (p :> i)]
            ELSE BucketLoop(f, column_index, p + 1, mn, st, bs, nn + 1, used @@ (p :> -1))

BinnedPlotRecord(bin_start, bin_end, value) ==
    [bin_start |-> bin_start, bin_end |-> bin_end, value |-> value]

\* the records pushed to result: one per bin, then the NaN record if nan > 0
NumericRecords(mn, st, bs, nn) ==
    [j \in 1..NUMERIC_BINS |->
        BinnedPlotRecord(FAdd(mn, FMul(UsizeAsF32(j - 1), st)),
                         FAdd(mn, FMul(UsizeAsF32(j), st)),
                         bs[j - 1])]
    \o (IF nn > 0 THEN <<BinnedPlotRecord(NAN, NAN, nn)>> ELSE <<>>)

\* generate_numeric_plot as a whole: "panic", or the records returned
GenerateNumericPlot(f, column_index) ==
    LET a == MinReduce(f, column_index, 0, INFINITY)
        b == MaxReduce(f, column_index, a.pos, NEG_INFINITY)
        st == FDiv(FSub(b.value, a.value), UsizeAsF32(NUMERIC_BINS))
        c == BucketLoop(f, column_index, b.pos, a.value, st, Zeros, 0, <<>>)
    IN IF a.panic \/ b.panic \/ c.panic THEN [panic |-> TRUE, records |-> <<>>]
       ELSE [panic |-> FALSE, records |-> NumericRecords(a.value, st, c.bins, c.nan)]

(***************************************************************************)
(* Column classification (crate::utils::column_type::classify_table), from *)
(* the specification: over the non-empty cells of the whole column.        *)
(***************************************************************************)
ParsesAsInteger(s) == \E i \in DOMAIN NumLiterals : NumLiterals[i] = s

ClassifyColumn(f, column_index) ==
    LET cells == {Get(f[i], column_index) : i \in 1..Len(f)} \ {""}
    IN IF cells = {} THEN "None"
       ELSE IF \A c \in cells : ParsesAsInteger(c) THEN "Integer"
       ELSE IF \A c \in cells : F32FromStr(c).ok THEN "Float"
       ELSE "String"

(***************************************************************************)
(* Specification of generate_numeric_plot on one column                    *)
(***************************************************************************)
NumCells == {"0", "1", "3", ""}

NumericFiles ==
    {f \in SeqsUpTo({<<c>> : c \in NumCells}, MaxNumRows) :
        ClassifyColumn(f, 0) \in {"Integer", "Float"}}

NominalIdle ==
    /\ count_values = <<>>
    /\ seed = 0
    /\ nominal = "unset"
    /\ invocation = 0
    /\ first = "unset"

RenderIdle ==
    /\ tables = <<>>
    /\ t = 0
    /\ pages = <<>>
    /\ dirs = {}
    /\ plots = {}

NumericIdle ==
    /\ min = INFINITY
    /\ max = NEG_INFINITY
    /\ step = NAN
    /\ bins = Zeros
    /\ nan = 0
    /\ result = <<>>
    /\ passes = <<>>
    /\ binOf = <<>>

\* csv::ReaderBuilder...from_path(path): the cursor is before the first record
NumericInit ==
    /\ file \in NumericFiles
    /\ pc = "min"
    /\ pos = 0
    /\ NumericIdle
    /\ NominalIdle
    /\ RenderIdle

Pass(name, from, to) == [pass |-> name, from |-> from, read |-> to - from]

NumMinPass ==
    /\ pc = "min"
    /\ LET a == MinReduce(file, 0, pos, INFINITY)
       IN /\ pos' = a.pos
          /\ passes' = Append(passes, Pass("min", pos, a.pos))
          /\ IF a.panic
             THEN pc' = "panic_unwrap" /\ UNCHANGED min
             ELSE pc' = "max" /\ min' = a.value
    /\ UNCHANGED <<file, max, step, bins, nan, result, binOf, nomVars, renVars>>

NumMaxPass ==
    /\ pc = "max"
    /\ LET b == MaxReduce(file, 0, pos, NEG_INFINITY)
       IN /\ pos' = b.pos
          /\ passes' = Append(passes, Pass("max", pos, b.pos))
          /\ IF b.panic
             THEN pc' = "panic_unwrap" /\ UNCHANGED <<max, step>>
             ELSE /\ pc' = "bins"
                  /\ max' = b.value
                  /\ step' = FDiv(FSub(b.value, min), UsizeAsF32(NUMERIC_BINS))
    /\ bins' = Zeros
    /\ nan' = 0
    /\ UNCHANGED <<file, min, result, binOf, nomVars, renVars>>

NumBucketPass ==
    /\ pc = "bins"
    /\ LET c == BucketLoop(file, 0, pos, min, step, bins, nan, <<>>)
       IN /\ pos' = c.pos
          /\ passes' = Append(passes, Pass("bins", pos, c.pos))
          /\ bins' = c.bins
          /\ nan' = c.nan
          /\ binOf' = c.used
          /\ pc' = IF c.panic THEN "panic_index" ELSE "emit"
    /\ UNCHANGED <<file, min, max, step, result, nomVars, renVars>>

NumEmit ==
    /\ pc = "emit"
    /\ result' = NumericRecords(min, step, bins, nan)
    /\ pc' = "done"
    /\ UNCHANGED <<file, pos, min, max, step, bins, nan, passes, binOf, nomVars, renVars>>

NumericNext == NumMinPass \/ NumMaxPass \/ NumBucketPass \/ NumEmit

SpecNumeric == NumericInit /\ [][NumericNext]_vars

(***************************************************************************)
(* What the column holds, read off the file itself                         *)
(***************************************************************************)
Ordinals(f) == 0..(Len(f) - 1)
Cell(f, p) == Get(f[p + 1], 0)
Parseable(f) == {p \in Ordinals(f) : F32FromStr(Cell(f, p)).ok}
Unparsable(f) == Ordinals(f) \ Parseable(f)
Number(f, p) == F32FromStr(Cell(f, p)).value
IsColumnMin(f, v) == \A q \in Parseable(f) : ~FLess(Number(f, q), v)
IsColumnMax(f, v) == \A q \in Parseable(f) : ~FLess(v, Number(f, q))
ColumnMin(f) == Number(f, CHOOSE p \in Parseable(f) : IsColumnMin(f, Number(f, p)))
ColumnMax(f) == Number(f, CHOOSE p \in Parseable(f) : IsColumnMax(f, Number(f, p)))

RECURSIVE SumValues(_)
SumValues(records) ==
    IF records = <<>> THEN 0 ELSE Head(records).value + SumValues(Tail(records))

IsSentinel(r) == r.bin_start = NAN /\ r.bin_end = NAN

Panicked == pc \in {"panic_unwrap", "panic_index"}

\* C2: when generate_numeric_plot has returned, the counts of its records (the
\* 20 buckets and the sentinel, if present) add up to the number of rows R.
C2_HistogramTotals ==
    pc = "done" => SumValues(result) = Len(file)

\* C3: every pass of generate_numeric_plot (min, max, bucketing) starts at the
\* first data row and reads all R rows; min and max are the smallest and the
\* largest parseable value of the whole column.
C3_EveryPassReadsWholeColumn ==
    /\ \A i \in DOMAIN passes :
          /\ passes[i].from = 0
          /\ (~Panicked => passes[i].read = Len(file))
    /\ (pc \in {"bins", "emit", "done"} =>
          min = ColumnMin(file) /\ max = ColumnMax(file))

\* C4: the bucketing pass never indexes outside [0, B-1]; every bucket index it
\* uses lies in [0, B-1], and a value equal to the column's max (max > min) is
\* counted in bucket B-1.
C4_BucketIndexInRange ==
    /\ pc # "panic_index"
    /\ \A p \in DOMAIN binOf : binOf[p] # -1 => binOf[p] \in 0..(NUMERIC_BINS - 1)
    /\ (pc \in {"emit", "done"} =>
          \A p \in Parseable(file) :
              (Number(file, p) = ColumnMax(file) /\ FLess(ColumnMin(file), ColumnMax(file)))
                  => (p \in DOMAIN binOf /\ binOf[p] = NUMERIC_BINS - 1))

\* C5: on a numeric column holding a cell that does not parse (an empty cell),
\* generate_numeric_plot does not abort; it returns, the cell is in no bucket,
\* and the last record is the sentinel counting the unparsable cells.
C5_UnparsableCountedAsNan ==
    Unparsable(file) # {} =>
        /\ ~Panicked
        /\ (pc = "done" =>
              /\ Len(result) = NUMERIC_BINS + 1
              /\ IsSentinel(result[Len(result)])
              /\ result[Len(result)].value = Cardinality(Unparsable(file))
              /\ SumValues(SubSeq(result, 1, NUMERIC_BINS)) = Cardinality(Parseable(file)))

ConstantColumn(f) ==
    /\ Len(f) >= 1
    /\ Unparsable(f) = {}
    /\ ColumnMin(f) = ColumnMax(f)

\* C6: on a constant column of R parseable values generate_numeric_plot returns
\* without failing, bucket 0 has count R and buckets 1..19 have count 0.
C6_ConstantColumnInBucketZero ==
    ConstantColumn(file) =>
        /\ ~Panicked
        /\ (pc = "done" =>
              /\ result[1].value = Len(file)
              /\ \A j \in 2..NUMERIC_BINS : result[j].value = 0)

(***************************************************************************)
(* generate_nominal_plot                                                   *)
(***************************************************************************)
\* the strings a nominal cell may hold, besides the empty one
Symbols == <<"a", "b", "c", "d", "e", "f", "g", "h",
             "i", "j", "k", "l", "m", "n", "o", "p">>

\* every non-empty string a cell of the model may hold
KeyStrings == Symbols \o NumLiterals

KeyCode(key) ==
    IF key = "" THEN 0 ELSE CHOOSE i \in DOMAIN KeyStrings : KeyStrings[i] = key

\* a prime above every key code
TableSlots == Len(KeyStrings) + 3

\* Where a key sits in the HashMap's table: decided by the map's RandomState
\* (std's HashMap::new() draws a fresh one per map), not by insertion order.
\* Each seed gives one permutation of the keys.
Slot(key, sd) == (KeyCode(key) * (sd + 1)) % TableSlots

\* count_values.entry(value).or_insert_with(|| 0) += 1
Increment(cv, value) ==
    IF value \in DOMAIN cv THEN [cv EXCEPT ![value] = @ + 1] ELSE cv @@ (value :> 1)

\* the body of the counting loop: empty cells are skipped
CountCellSkippingNothing(cv, value) == Increment(cv, value)
CountCell(cv, value) == IF value # "" THEN Increment(cv, value) ELSE cv

\* count_values.iter(): the keys in table order
RECURSIVE IterKeys(_, _)
IterKeys(keys, sd) ==
    IF keys = {} THEN <<>>
    ELSE LET k == CHOOSE x \in keys : \A y \in keys : Slot(x, sd) <= Slot(y, sd)
         IN <<k>> \o IterKeys(keys \ {k}, sd)

PlotRecord(key, value) == [key |-> key, value |-> value]

PlotData(cv, sd) ==
    LET order == IterKeys(DOMAIN cv, sd)
    IN [i \in DOMAIN order |-> PlotRecord(order[i], cv[order[i]])]

\* plot_data.sort_by(|a, b| a.value.cmp(&b.value)): ascending
RECURSIVE SortByValueAscending(_)
SortByValueAscending(data) ==
    IF data = <<>> THEN <<>>
    ELSE LET x == Head(data)
             rest == SortByValueAscending(Tail(data))
             Before(r) == r.value < x.value
             NotBefore(r) == r.value >= x.value
         IN SelectSeq(rest, Before) \o <<x>> \o SelectSeq(rest, NotBefore)

\* plot_data.sort_by(|a, b| b.value.cmp(&a.value)): stable, descending count
RECURSIVE SortByValue(_)
SortByValue(data) ==
    IF data = <<>> THEN <<>>
    ELSE LET x == Head(data)
             rest == SortByValue(Tail(data))
             Before(r) == r.value > x.value
             NotBefore(r) == r.value <= x.value
         IN SelectSeq(rest, Before) \o <<x>> \o SelectSeq(rest, NotBefore)

Take(data, n) == SubSeq(data, 1, IF Len(data) < n THEN Len(data) ELSE n)

None == [some |-> FALSE, data |-> <<>>]
Some(data) == [some |-> TRUE, data |-> data]

\* from the collected plot_data to the returned value
NominalResult(cv, sd) ==
    LET plot_data == PlotData(cv, sd)
        unique_values == Cardinality({cv[k] : k \in DOMAIN cv})
    IN IF Len(plot_data) > MAX_NOMINAL_BINS
       THEN IF unique_values <= 1 THEN None
            ELSE Some(Take(SortByValue(plot_data), MAX_NOMINAL_BINS))
       ELSE Some(plot_data)

RECURSIVE CountAll(_, _, _, _)
CountAll(f, column_index, p, cv) ==
    IF p >= Len(f) THEN cv
    ELSE CountAll(f, column_index, p + 1, CountCell(cv, Get(f[p + 1], column_index)))

\* generate_nominal_plot as a whole, the map drawing seed sd
GenerateNominalPlot(f, column_index, sd) ==
    NominalResult(CountAll(f, column_index, 0, <<>>), sd)

(***************************************************************************)
(* Specification of generate_nominal_plot, called twice on one file        *)
(***************************************************************************)
ExtraCells == {"a", "b", ""}

\* a file: k distinct keys once each, then up to MaxExtra more rows
NominalFiles ==
    {[i \in 1..k |-> <<Symbols[i]>>] \o extra :
        k \in 0..NumKeys, extra \in SeqsUpTo({<<c>> : c \in ExtraCells}, MaxExtra)}

Seeds == 0..MaxSeed

NominalInit ==
    /\ file \in NominalFiles
    /\ pc = "count"
    /\ pos = 0
    /\ count_values = <<>>
    /\ seed \in Seeds
    /\ nominal = "unset"
    /\ invocation = 1
    /\ first = "unset"
    /\ NumericIdle
    /\ RenderIdle

NomCountRow ==
    /\ pc = "count"
    /\ pos < Len(file)
    /\ count_values' = CountCell(count_values, Get(file[pos + 1], 0))
    /\ pos' = pos + 1
    /\ UNCHANGED <<file, pc, seed, nominal, invocation, first, numVars, renVars>>

NomReturn ==
    /\ pc = "count"
    /\ pos = Len(file)
    /\ nominal' = NominalResult(count_values, seed)
    /\ pc' = "done"
    /\ UNCHANGED <<file, pos, count_values, seed, invocation, first, numVars, renVars>>

\* the caller calls again on the same file: a new reader, a new map
NomCallAgain ==
    /\ pc = "done"
    /\ invocation = 1
    /\ first' = nominal
    /\ invocation' = 2
    /\ pos' = 0
    /\ count_values' = <<>>
    /\ seed' \in Seeds
    /\ nominal' = "unset"
    /\ pc' = "count"
    /\ UNCHANGED <<file, numVars, renVars>>

NominalNext == NomCountRow \/ NomReturn \/ NomCallAgain

SpecNominal == NominalInit /\ [][NominalNext]_vars

\* read off the file itself
Occurrences(f, key) == Cardinality({p \in Ordinals(f) : Cell(f, p) = key})
DistinctValues(f) == {Cell(f, p) : p \in Ordinals(f)} \ {""}
Frequencies(f) == {Occurrences(f, key) : key \in DistinctValues(f)}
KeysOf(data) == {data[i].key : i \in DOMAIN data}

\* C7: with more than 10 distinct non-empty values: None when all of them occur
\* equally often; otherwise exactly 10 records in non-increasing count order,
\* each with a count >= the count of every value left out.
C7_TopTenOrNone ==
    (pc = "done" /\ Cardinality(DistinctValues(file)) > MAX_NOMINAL_BINS) =>
        IF Cardinality(Frequencies(file)) <= 1
        THEN nominal = None
        ELSE /\ nominal.some
             /\ Len(nominal.data) = MAX_NOMINAL_BINS
             /\ Cardinality(KeysOf(nominal.data)) = MAX_NOMINAL_BINS
             /\ \A i \in DOMAIN nominal.data :
                   nominal.data[i].value = Occurrences(file, nominal.data[i].key)
             /\ \A i, j \in DOMAIN nominal.data :
                   i < j => nominal.data[i].value >= nominal.data[j].value
             /\ \A i \in DOMAIN nominal.data :
                   \A key \in DistinctValues(file) \ KeysOf(nominal.data) :
                       nominal.data[i].value >= Occurrences(file, key)

C7_Witness_Truncated ==
    /\ pc = "done"
    /\ Cardinality(DistinctValues(file)) > MAX_NOMINAL_BINS
    /\ Cardinality(Frequencies(file)) > 1
    /\ nominal.some
    /\ Len(nominal.data) = MAX_NOMINAL_BINS

\* C8: with at most 10 distinct non-empty values the result is Some(records)
\* with exactly one record per distinct non-empty value, its count the number
\* of rows holding it; no record has the empty key.
C8_OneRecordPerValue ==
    (pc = "done" /\ Cardinality(DistinctValues(file)) <= MAX_NOMINAL_BINS) =>
        /\ nominal.some
        /\ KeysOf(nominal.data) = DistinctValues(file)
        /\ Len(nominal.data) = Cardinality(DistinctValues(file))
        /\ \A i \in DOMAIN nominal.data :
              nominal.data[i].value = Occurrences(file, nominal.data[i].key)

C8_Witness_EmptyCellsSkipped ==
    /\ pc = "done"
    /\ Occurrences(file, "") > 0
    /\ Cardinality(DistinctValues(file)) \in 2..MAX_NOMINAL_BINS
    /\ nominal.some
    /\ Len(nominal.data) = Cardinality(DistinctValues(file))

\* C9: two calls of generate_nominal_plot on the same file return the same
\* value: the same records in the same order.
C9_SameContentSameResult ==
    (pc = "done" /\ invocation = 2) => nominal = first

(***************************************************************************)
(* TableRenderer::render_tables                                            *)
(***************************************************************************)
\* RowAddressFactory::new(page_size).get(i).page (crate::utils::row_address),
\* from the specification: floor division
PageOf(i, page_size) == i \div page_size

\* a group that swallows the first record of the next page
RECURSIVE GroupEndLate(_, _, _)
GroupEndLate(n, p, page_size) ==
    IF p + 1 >= n THEN n
    ELSE IF PageOf(p + 1, page_size) # PageOf(p, page_size)
         THEN (IF p + 2 <= n THEN p + 2 ELSE n)
         ELSE GroupEndLate(n, p + 1, page_size)

\* group_by over the enumerated records: the group that starts at record p runs
\* while the key stays that of p; the result is the ordinal after its last record
RECURSIVE GroupEnd(_, _, _)
GroupEnd(n, p, page_size) ==
    IF p + 1 >= n THEN n
    ELSE IF PageOf(p + 1, page_size) # PageOf(p, page_size) THEN p + 1
         ELSE GroupEnd(n, p + 1, page_size)

\* what render_page may do with a batch.  The source leaves its body a stub;
\* it is the page-rendering collaborator: it returns Ok or fails.
RenderPageOutcomes == {"ok", "fail"}

TableDir(name) == <<name>>
PlotsDir(name) == <<name, "plots">>

\* the artifact render_plots writes for the single column of the file (index 0)
\* with the map seed sd: "panic", or the plot written to plot_0
ColumnPlot(f, sd) ==
    LET type == ClassifyColumn(f, 0)
    IN CASE type = "None" -> [panic |-> TRUE, variant |-> "none", plot |-> <<>>]
         [] type = "String" ->
              [panic |-> FALSE, variant |-> "nominal", plot |-> GenerateNominalPlot(f, 0, sd)]
         [] OTHER ->
              LET g == GenerateNumericPlot(f, 0)
              IN [panic |-> g.panic, variant |-> "numeric", plot |-> g.records]

(***************************************************************************)
(* Specification of render_tables: every table reads the same file         *)
(***************************************************************************)
RenderCells == {"1", "a", ""}
TableNames == {"t1", "t2"}

RenderFiles == SeqsUpTo({<<c>> : c \in RenderCells}, MaxRows)

TableLists ==
    {ts \in SeqsUpTo([name : TableNames, page_size : 1..MaxPageSize],
                     Cardinality(TableNames)) :
        \A i, j \in DOMAIN ts : i # j => ts[i].name # ts[j].name}

RenderInit ==
    /\ file \in RenderFiles
    /\ tables \in TableLists
    /\ dirs \in SUBSET {TableDir(name) : name \in TableNames}
    /\ t = 0
    /\ pc = "next"
    /\ pos = 0
    /\ pages = <<>>
    /\ plots = {}
    /\ NumericIdle
    /\ NominalIdle

\* the next table of the loop: open its reader
RenOpenTable ==
    /\ pc = "next"
    /\ t < Len(tables)
    /\ t' = t + 1
    /\ pos' = 0
    /\ pc' = "paging"
    /\ UNCHANGED <<file, tables, pages, dirs, plots, numVars, nomVars>>

\* the next group of records goes to render_page
RenPage ==
    /\ pc = "paging"
    /\ pos < Len(file)
    /\ LET end == GroupEnd(Len(file), pos, tables[t].page_size)
       IN /\ pages' = Append(pages, [table |-> tables[t].name,
                                     page |-> PageOf(pos, tables[t].page_size),
                                     data |-> SubSeq(file, pos + 1, end)])
          /\ pos' = end
    /\ \E outcome \in RenderPageOutcomes :
          pc' = IF outcome = "ok" THEN "paging" ELSE "failed_page"
    /\ UNCHANGED <<file, tables, t, dirs, plots, numVars, nomVars>>

\* fs::create_dir(out_path)?
RenCreateDir ==
    /\ pc = "paging"
    /\ pos = Len(file)
    /\ IF TableDir(tables[t].name) \in dirs
       THEN pc' = "failed_dir" /\ UNCHANGED dirs
       ELSE pc' = "plots" /\ dirs' = dirs \cup {TableDir(tables[t].name)}
    /\ UNCHANGED <<file, tables, t, pos, pages, plots, numVars, nomVars>>

\* render_plots(out_path, table.path, table.separator)?
RenPlots ==
    /\ pc = "plots"
    /\ dirs' = dirs \cup {PlotsDir(tables[t].name)}
    /\ \E sd \in Seeds :
          LET c == ColumnPlot(file, sd)
          IN IF c.panic
             THEN pc' = "panic" /\ UNCHANGED plots
             ELSE /\ pc' = "next"
                  /\ plots' = plots \cup {[table |-> tables[t].name, index |-> 0,
                                            variant |-> c.variant, plot |-> c.plot]}
    /\ UNCHANGED <<file, tables, t, pos, pages, numVars, nomVars>>

\* Ok(()) after the last table
RenReturn ==
    /\ pc = "next"
    /\ t = Len(tables)
    /\ pc' = "ok"
    /\ UNCHANGED <<file, tables, t, pos, pages, dirs, plots, numVars, nomVars>>

RenderNext == RenOpenTable \/ RenPage \/ RenCreateDir \/ RenPlots \/ RenReturn

SpecRender == RenderInit /\ [][RenderNext]_vars

BatchesOf(name) == SelectSeq(pages, LAMBDA b : b.table = name)

CeilDiv(a, b) == (a + b - 1) \div b
Least(a, b) == IF a < b THEN a ELSE b

\* the paging loop of table i has run to its end
PagingDone(i) ==
    i < t \/ (i = t /\ pc \in {"plots", "panic", "failed_dir", "next", "ok"})

====
